---------------------------- MODULE Spec2Model ----------------------------
(***************************************************************************)
(* Ledger state machine of the payment engine.                             *)
(*                                                                         *)
(* State: the ClientTable (payment_engine.rs), one ClientInfo per client   *)
(* id (client_info.rs), the record the main loop is handling and the       *)
(* Result handle_transaction returned for it (main.rs); and, for the        *)
(* Currency type on its own, a value on its way through Display and        *)
(* from_str (currency.rs).                                                 *)
(*                                                                         *)
(* Currency is an i64 counted in 1/10000 units (currency.rs).  The amounts *)
(* drawn below are a few units wide and at most MaxRecords records are     *)
(* read, so every sum stays far inside the i64 range and +, - are exact.   *)
(***************************************************************************)
EXTENDS Integers, Sequences, FiniteSets, TLC

\* ---------------------------------------------------------------- bounds
\* records read by the main loop, and the largest transaction id an input names
MaxRecords == 4
MaxTx == 2
\* records read when the input addresses two clients of the table
MaxRecordsTwo == 3
\* the largest magnitude of a Currency value that is rendered and parsed
MaxCurrency == 20000

\* ------------------------------------------------------ program constants
\* ClientId::MAX for ClientId = u16
ClientIdMAX == 65535

\* ------------------------------------------------------------ input sets
\* one client inside the table and the largest u16; a negative, a zero and two
\* positive amounts (in 1/10000 units)
ClientIds == {1, ClientIdMAX}
TxIds == 1..MaxTx
Amounts == {-1, 0, 1, 2}

VARIABLES clients, tx, result, nread, pc, conv

vars == <<clients, tx, result, nread, pc, conv>>

\* -------------------------------------------------------------- Currency
\* A text is a sequence of one-character strings.
Digit == <<"0", "1", "2", "3", "4", "5", "6", "7", "8", "9">>

IsDigit(ch) == \E d \in 0..9 : Digit[d + 1] = ch

DigitVal(ch) == CHOOSE d \in 0..9 : Digit[d + 1] = ch

\* the decimal digits of a natural number (Display of a non-negative integer)
RECURSIVE NatText(_)
NatText(n) ==
    IF n < 10 THEN <<Digit[n + 1]>>
    ELSE NatText(n \div 10) \o <<Digit[(n % 10) + 1]>>

\* Display of an i64: a minus sign for a negative number, none for zero
IntText(i) == IF i < 0 THEN <<"-">> \o NatText(0 - i) ELSE NatText(i)

\* `/` of i64 truncates towards zero
TruncDiv(a, b) == IF a >= 0 THEN a \div b ELSE 0 - ((0 - a) \div b)

Abs(a) == IF a < 0 THEN 0 - a ELSE a

\* {:0>4}: filled with zeros on the left up to four characters
RECURSIVE PadLeft(_)
PadLeft(s) == IF Len(s) >= 4 THEN s ELSE PadLeft(<<"0">> \o s)

\* {:0<4}: filled with zeros on the right up to four characters
RECURSIVE PadRight(_)
PadRight(s) == IF Len(s) >= 4 THEN s ELSE PadRight(s \o <<"0">>)

\* write!(f, "{}.{:0>4}", self.0 / 10000, self.0.abs() % 10000)
to_string(v) ==
    IntText(TruncDiv(v, 10000)) \o <<".">> \o PadLeft(NatText(Abs(v) % 10000))

ParseErr == [ok |-> FALSE, val |-> 0]

ParseOk(v) == [ok |-> TRUE, val |-> v]

RECURSIVE DigitsVal(_)
DigitsVal(s) ==
    IF s = <<>> THEN 0
    ELSE 10 * DigitsVal(SubSeq(s, 1, Len(s) - 1)) + DigitVal(s[Len(s)])

\* i64::from_str: an optional sign, then one digit or more and nothing else
\* (the texts of this model are short, so the value always fits an i64)
ParseI64(s) ==
    LET signed == s # <<>> /\ s[1] \in {"+", "-"}
        digits == IF signed THEN Tail(s) ELSE s
    IN  IF digits = <<>> \/ \E i \in 1..Len(digits) : ~IsDigit(digits[i])
        THEN ParseErr
        ELSE IF signed /\ s[1] = "-"
             THEN ParseOk(0 - DigitsVal(digits))
             ELSE ParseOk(DigitsVal(digits))

\* position of the first `.` of s at or after position from, Len(s) + 1 when
\* there is none
DotFrom(s, from) ==
    IF \E i \in from..Len(s) : s[i] = "."
    THEN CHOOSE i \in from..Len(s) :
            s[i] = "." /\ \A j \in from..(i - 1) : s[j] # "."
    ELSE Len(s) + 1

\* Currency::from_str: the first two pieces of s.split('.'), the second one
\* padded to four characters; the sign of the scaled first piece decides the
\* sign of the second
from_str(s) ==
    LET p1 == DotFrom(s, 1)
        first == ParseI64(SubSeq(s, 1, p1 - 1))
        hasSecond == p1 <= Len(s)
        p2 == DotFrom(s, p1 + 1)
        second == ParseI64(PadRight(SubSeq(s, p1 + 1, p2 - 1)))
    IN  IF ~first.ok THEN ParseErr
        ELSE IF ~hasSecond THEN ParseOk(first.val * 10000)
        ELSE IF ~second.ok THEN ParseErr
        ELSE LET scaled == first.val * 10000 IN
             ParseOk(scaled + (IF scaled < 0 THEN 0 - second.val ELSE second.val))

\* no conversion under way
NoConversion ==
    [stage |-> "idle", value |-> 0, text |-> <<>>, parsed |-> ParseErr]

\* ------------------------------------------------------------ ClientInfo
ClientTransaction(amount, t) == [tx |-> t, amount |-> amount]

DefaultClientInfo ==
    [available_funds |-> 0, held_funds |-> 0, locked |-> FALSE,
     transfers |-> <<>>, disputes |-> <<>>]

\* a scan that keeps the last matching entry instead of returning at the first
LastMatch(s, t) ==
    IF \E i \in 1..Len(s) : s[i].tx = t
    THEN CHOOSE i \in 1..Len(s) :
            /\ s[i].tx = t
            /\ \A j \in (i + 1)..Len(s) : s[j].tx # t
    ELSE 0

\* index of the first entry of s whose tx is t, 0 when there is none
\* (the `for x in &vec { if x.tx == tx { ...; return } }` scans)
FirstMatch(s, t) ==
    IF \E i \in 1..Len(s) : s[i].tx = t
    THEN CHOOSE i \in 1..Len(s) :
            /\ s[i].tx = t
            /\ \A j \in 1..(i - 1) : s[j].tx # t
    ELSE 0

\* deposit that validates the sign and drops a negative amount
deposit_checks_sign(info, amount, t) ==
    IF amount < 0
    THEN [info |-> info, res |-> "Ok"]
    ELSE [info |-> [info EXCEPT
                      !.available_funds = @ + amount,
                      !.transfers = Append(@, ClientTransaction(amount, t))],
          res |-> "Ok"]

deposit(info, amount, t) ==
    [info |-> [info EXCEPT
                 !.available_funds = @ + amount,
                 !.transfers = Append(@, ClientTransaction(amount, t))],
     res |-> "Ok"]

\* withdraw with the boundary moved: rejects only available < amount
withdraw_strict(info, amount, t) ==
    IF info.available_funds < amount
    THEN [info |-> info, res |-> "Overdraw"]
    ELSE [info |-> [info EXCEPT
                      !.available_funds = @ - amount,
                      !.transfers = Append(@, ClientTransaction(-amount, t))],
          res |-> "Ok"]

\* withdraw that records the transfer before it checks the funds
withdraw_records_refused(info, amount, t) ==
    IF info.available_funds <= amount
    THEN [info |-> [info EXCEPT
                      !.transfers = Append(@, ClientTransaction(-amount, t))],
          res |-> "Overdraw"]
    ELSE [info |-> [info EXCEPT
                      !.available_funds = @ - amount,
                      !.transfers = Append(@, ClientTransaction(-amount, t))],
          res |-> "Ok"]

\* withdraw without the check of the funds
withdraw_unchecked(info, amount, t) ==
    [info |-> [info EXCEPT
                 !.available_funds = @ - amount,
                 !.transfers = Append(@, ClientTransaction(-amount, t))],
     res |-> "Ok"]

withdraw(info, amount, t) ==
    IF info.available_funds <= amount
    THEN [info |-> info, res |-> "Overdraw"]
    ELSE [info |-> [info EXCEPT
                      !.available_funds = @ - amount,
                      !.transfers = Append(@, ClientTransaction(-amount, t))],
          res |-> "Ok"]

\* dispute that takes the amount out of available without holding it
dispute_drops_held(info, t) ==
    LET i == FirstMatch(info.transfers, t) IN
    IF i = 0
    THEN [info |-> info, res |-> "InvalidTxId"]
    ELSE LET e == info.transfers[i] IN
         [info |-> [info EXCEPT
                      !.available_funds = @ - e.amount,
                      !.disputes = Append(@, ClientTransaction(e.amount, e.tx))],
          res |-> "Ok"]

\* dispute that moves the funds without recording the open dispute
dispute_not_recorded(info, t) ==
    LET i == FirstMatch(info.transfers, t) IN
    IF i = 0
    THEN [info |-> info, res |-> "InvalidTxId"]
    ELSE LET e == info.transfers[i] IN
         [info |-> [info EXCEPT
                      !.available_funds = @ - e.amount,
                      !.held_funds = @ + e.amount],
          res |-> "Ok"]

\* dispute that moves the disputed entry out of the transfers
dispute_consumes_transfer(info, t) ==
    LET i == FirstMatch(info.transfers, t) IN
    IF i = 0
    THEN [info |-> info, res |-> "InvalidTxId"]
    ELSE LET e == info.transfers[i] IN
         [info |-> [info EXCEPT
                      !.available_funds = @ - e.amount,
                      !.held_funds = @ + e.amount,
                      !.transfers = SubSeq(@, 1, i - 1) \o SubSeq(@, i + 1, Len(@)),
                      !.disputes = Append(@, ClientTransaction(e.amount, e.tx))],
          res |-> "Ok"]

dispute(info, t) ==
    LET i == FirstMatch(info.transfers, t) IN
    IF i = 0
    THEN [info |-> info, res |-> "InvalidTxId"]
    ELSE LET e == info.transfers[i] IN
         [info |-> [info EXCEPT
                      !.available_funds = @ - e.amount,
                      !.held_funds = @ + e.amount,
                      !.disputes = Append(@, ClientTransaction(e.amount, e.tx))],
          res |-> "Ok"]

\* resolve that looks the id up in the transfers instead of the disputes
resolve_scans_transfers(info, dispute_tx) ==
    LET i == FirstMatch(info.transfers, dispute_tx) IN
    IF i = 0
    THEN [info |-> info, res |-> "InvalidTxId"]
    ELSE LET d == info.transfers[i] IN
         [info |-> [info EXCEPT
                      !.available_funds = @ + d.amount,
                      !.held_funds = @ - d.amount],
          res |-> "Ok"]

\* resolve that credits available and leaves the funds held
resolve_keeps_held(info, dispute_tx) ==
    LET i == FirstMatch(info.disputes, dispute_tx) IN
    IF i = 0
    THEN [info |-> info, res |-> "InvalidTxId"]
    ELSE LET d == info.disputes[i] IN
         [info |-> [info EXCEPT !.available_funds = @ + d.amount],
          res |-> "Ok"]

\* resolve that reopens a locked account
resolve_unlocks(info, dispute_tx) ==
    LET i == FirstMatch(info.disputes, dispute_tx) IN
    IF i = 0
    THEN [info |-> info, res |-> "InvalidTxId"]
    ELSE LET d == info.disputes[i] IN
         [info |-> [info EXCEPT
                      !.available_funds = @ + d.amount,
                      !.held_funds = @ - d.amount,
                      !.locked = FALSE],
          res |-> "Ok"]

resolve(info, dispute_tx) ==
    LET i == FirstMatch(info.disputes, dispute_tx) IN
    IF i = 0
    THEN [info |-> info, res |-> "InvalidTxId"]
    ELSE LET d == info.disputes[i] IN
         [info |-> [info EXCEPT
                      !.available_funds = @ + d.amount,
                      !.held_funds = @ - d.amount],
          res |-> "Ok"]

\* chargeback that hands the held funds back to available, as resolve does
chargeback_refunds(info, dispute_tx) ==
    LET i == FirstMatch(info.disputes, dispute_tx) IN
    IF i = 0
    THEN [info |-> info, res |-> "InvalidTxId"]
    ELSE LET d == info.disputes[i] IN
         [info |-> [info EXCEPT
                      !.available_funds = @ + d.amount,
                      !.held_funds = @ - d.amount,
                      !.locked = TRUE],
          res |-> "Ok"]

chargeback(info, dispute_tx) ==
    LET i == FirstMatch(info.disputes, dispute_tx) IN
    IF i = 0
    THEN [info |-> info, res |-> "InvalidTxId"]
    ELSE LET d == info.disputes[i] IN
         [info |-> [info EXCEPT
                      !.held_funds = @ - d.amount,
                      !.locked = TRUE],
          res |-> "Ok"]

total_funds(info) == info.available_funds + info.held_funds

\* ----------------------------------------------------------- ClientTable
\* ClientTable::new builds a vector of ClientIdMAX default entries, valid
\* indices 0 .. ClientIdMAX-1.  Only the entries an input can address are
\* kept in the state; the others stay at their default forever.
TableLen == ClientIdMAX

InTable(c) == c >= 0 /\ c < TableLen

TableIds == {c \in ClientIds : InTable(c)}

NewClientTable == [c \in TableIds |-> DefaultClientInfo]

\* the ClientInfo operation a record selects
Apply(info, rec) ==
    CASE rec.type = "Withdraw"   -> withdraw(info, rec.amount, rec.tx)
      [] rec.type = "Deposit"    -> deposit(info, rec.amount, rec.tx)
      [] rec.type = "Dispute"    -> dispute(info, rec.tx)
      [] rec.type = "Resolve"    -> resolve(info, rec.tx)
      [] rec.type = "Chargeback" -> chargeback(info, rec.tx)

\* handle_transaction with one index of transaction ids for the whole table: a
\* dispute, resolve or chargeback that finds nothing under the addressed
\* client is applied to a client that has the id
handle_transaction_any_owner(table, rec) ==
    IF ~InTable(rec.client)
    THEN [clients |-> table, res |-> "panic"]
    ELSE LET r == Apply(table[rec.client], rec)
             owners == {o \in DOMAIN table : Apply(table[o], rec).res = "Ok"}
         IN  IF r.res = "InvalidTxId" /\ owners # {}
             THEN LET o == CHOOSE o \in owners : TRUE IN
                  [clients |-> [table EXCEPT ![o] = Apply(table[o], rec).info],
                   res |-> "Ok"]
             ELSE [clients |-> [table EXCEPT ![rec.client] = r.info],
                   res |-> r.res]

\* self.clients[client as usize] panics when the index is out of bounds
handle_transaction(table, rec) ==
    IF ~InTable(rec.client)
    THEN [clients |-> table, res |-> "panic"]
    ELSE LET r == Apply(table[rec.client], rec) IN
         [clients |-> [table EXCEPT ![rec.client] = r.info], res |-> r.res]

\* ------------------------------------------------------------------ main
\* (the fields of a record are written in one order throughout: tx, amount,
\* type, client)
NoRecord == [type |-> "None"]

Init ==
    /\ clients = NewClientTable
    /\ tx = NoRecord
    /\ result = "None"
    /\ nread = 0
    /\ pc = "loop"
    /\ conv = NoConversion

\* one iteration of the loop over the lines of an input of at most limit
\* lines: the line parsed to rec, handle_transaction is called and its Err is
\* dropped
Read(rec, limit) ==
    /\ pc = "loop"
    /\ nread < limit
    /\ LET r == handle_transaction(clients, rec) IN
         /\ clients' = r.clients
         /\ result' = r.res
         /\ pc' = IF r.res = "panic" THEN "panicked" ELSE "loop"
    /\ tx' = rec
    /\ nread' = nread + 1
    /\ UNCHANGED conv

Handle(rec) == Read(rec, MaxRecords)

Deposit(c, t, a) ==
    Handle([tx |-> t, amount |-> a, type |-> "Deposit", client |-> c])

Withdraw(c, t, a) ==
    Handle([tx |-> t, amount |-> a, type |-> "Withdraw", client |-> c])

Dispute(c, t) == Handle([tx |-> t, type |-> "Dispute", client |-> c])

Resolve(c, t) == Handle([tx |-> t, type |-> "Resolve", client |-> c])

Chargeback(c, t) == Handle([tx |-> t, type |-> "Chargeback", client |-> c])

\* parse_line returned Err: `tx?` makes main return the error, nothing is
\* printed
ParseError ==
    /\ pc = "loop"
    /\ pc' = "error"
    /\ UNCHANGED <<clients, tx, result, nread, conv>>

\* the reader is exhausted: the table is printed and main returns Ok
EndOfInput ==
    /\ pc = "loop"
    /\ pc' = "done"
    /\ UNCHANGED <<clients, tx, result, nread, conv>>

Next ==
    \/ \E c \in ClientIds, t \in TxIds, a \in Amounts : Deposit(c, t, a)
    \/ \E c \in ClientIds, t \in TxIds, a \in Amounts : Withdraw(c, t, a)
    \/ \E c \in ClientIds, t \in TxIds : Dispute(c, t)
    \/ \E c \in ClientIds, t \in TxIds : Resolve(c, t)
    \/ \E c \in ClientIds, t \in TxIds : Chargeback(c, t)
    \/ ParseError
    \/ EndOfInput

Spec == Init /\ [][Next]_vars

\* ------------------------------------- inputs that address two clients
TwoClientIds == {1, 2}

TwoAmounts == {1, 2}

InitTwo ==
    /\ clients = [c \in TwoClientIds |-> DefaultClientInfo]
    /\ tx = NoRecord
    /\ result = "None"
    /\ nread = 0
    /\ pc = "loop"
    /\ conv = NoConversion

ReadTwo(rec) == Read(rec, MaxRecordsTwo)

NextTwo ==
    \/ \E c \in TwoClientIds, t \in TxIds, a \in TwoAmounts :
          ReadTwo([tx |-> t, amount |-> a, type |-> "Deposit", client |-> c])
    \/ \E c \in TwoClientIds, t \in TxIds, a \in TwoAmounts :
          ReadTwo([tx |-> t, amount |-> a, type |-> "Withdraw", client |-> c])
    \/ \E c \in TwoClientIds, t \in TxIds :
          ReadTwo([tx |-> t, type |-> "Dispute", client |-> c])
    \/ \E c \in TwoClientIds, t \in TxIds :
          ReadTwo([tx |-> t, type |-> "Resolve", client |-> c])
    \/ \E c \in TwoClientIds, t \in TxIds :
          ReadTwo([tx |-> t, type |-> "Chargeback", client |-> c])
    \/ ParseError
    \/ EndOfInput

SpecTwo == InitTwo /\ [][NextTwo]_vars

\* ---------------------------------- inputs of deposits and withdrawals only
NonNegativeAmounts == {a \in Amounts : a >= 0}

NextDepositWithdraw ==
    \/ \E c \in ClientIds, t \in TxIds, a \in NonNegativeAmounts : Deposit(c, t, a)
    \/ \E c \in ClientIds, t \in TxIds, a \in NonNegativeAmounts : Withdraw(c, t, a)
    \/ ParseError
    \/ EndOfInput

SpecDepositWithdraw == Init /\ [][NextDepositWithdraw]_vars

\* ------------------------------------------- Currency through its text form
CurrencyValues == (0 - MaxCurrency)..MaxCurrency

InitCurrency ==
    /\ clients = NewClientTable
    /\ tx = NoRecord
    /\ result = "None"
    /\ nread = 0
    /\ pc = "loop"
    /\ \E v \in CurrencyValues :
          conv = [NoConversion EXCEPT !.stage = "value", !.value = v]

\* value.to_string()
Render ==
    /\ conv.stage = "value"
    /\ conv' = [conv EXCEPT !.stage = "text", !.text = to_string(conv.value)]
    /\ UNCHANGED <<clients, tx, result, nread, pc>>

\* Currency::from_str(&text)
Parse ==
    /\ conv.stage = "text"
    /\ conv' = [conv EXCEPT !.stage = "parsed", !.parsed = from_str(conv.text)]
    /\ UNCHANGED <<clients, tx, result, nread, pc>>

NextCurrency == Render \/ Parse

SpecCurrency == InitCurrency /\ [][NextCurrency]_vars

\* ------------------------------------------- the input of section 8 of the spec
\* deposit,1,1,1.0000 / withdrawal,1,2,0.5000 / withdrawal,1,3,0.5000 /
\* dispute,1,1 / resolve,1,1, amounts as Currency::from_str reads them
Scenario ==
    << [tx |-> 1, amount |-> 10000, type |-> "Deposit", client |-> 1],
       [tx |-> 2, amount |-> 5000, type |-> "Withdraw", client |-> 1],
       [tx |-> 3, amount |-> 5000, type |-> "Withdraw", client |-> 1],
       [tx |-> 1, type |-> "Dispute", client |-> 1],
       [tx |-> 1, type |-> "Resolve", client |-> 1] >>

\* the reader yields a line of the scenario, in any order and with repeats
ScenarioLine(i) == Read(Scenario[i], Len(Scenario))

NextScenario ==
    \/ \E i \in 1..Len(Scenario) : ScenarioLine(i)
    \/ ParseError
    \/ EndOfInput

SpecScenario == Init /\ [][NextScenario]_vars

\* ---------------------------------------------------- helpers of the claims
RECURSIVE SumAmounts(_)
SumAmounts(s) == IF s = <<>> THEN 0 ELSE s[1].amount + SumAmounts(Tail(s))

\* this step is the main loop handling a record of the given type for a client
\* that has an account
Handled(type) ==
    /\ nread' = nread + 1
    /\ tx'.type = type
    /\ InTable(tx'.client)

\* the last record read was of the given type, for a client that has an account
Last(type) == tx.type = type /\ InTable(tx.client)

\* this step handles a record for the client and id of the last record
SameTarget == tx'.client = tx.client /\ tx'.tx = tx.tx

HasTx(s, t) == \E i \in 1..Len(s) : s[i].tx = t

\* ------------------------------------------------------------------- C1
\* C1 (as stated): in every reachable state of every account,
\* available + held equals the sum of the signed amounts of its history.
\* A chargeback takes the amount out of held and leaves the history alone.
TotalEqualsHistorySum ==
    \A c \in DOMAIN clients :
        total_funds(clients[c]) = SumAmounts(clients[c].transfers)

\* C1 (amended): in every reachable state of an account on which no Chargeback
\* has succeeded (locked is false), available + held equals the sum of the
\* signed amounts of its history.
TotalEqualsHistorySumUntilChargeback ==
    \A c \in DOMAIN clients :
        ~clients[c].locked =>
            total_funds(clients[c]) = SumAmounts(clients[c].transfers)

\* an unlocked account with a deposit and a withdrawal in its history, a
\* dispute just opened and funds held
TotalEqualsHistorySumWitness ==
    /\ Last("Dispute") /\ result = "Ok"
    /\ LET a == clients[tx.client] IN
         /\ ~a.locked
         /\ Len(a.transfers) >= 2
         /\ a.held_funds # 0
         /\ \E i \in 1..Len(a.transfers) : a.transfers[i].amount < 0

\* ------------------------------------------------------------------- C2
\* C2: a Withdraw fails with Overdraw exactly when available <= amount
\* (equality included) and then leaves available and history unchanged;
\* otherwise it succeeds, takes amount from available and appends
\* (tx, -amount) to history.
WithdrawBoundary ==
    [][Handled("Withdraw") =>
         LET old == clients[tx'.client]
             new == clients'[tx'.client]
         IN  IF old.available_funds <= tx'.amount
             THEN /\ result' = "Overdraw"
                  /\ new.available_funds = old.available_funds
                  /\ new.transfers = old.transfers
             ELSE /\ result' = "Ok"
                  /\ new.available_funds = old.available_funds - tx'.amount
                  /\ new.transfers =
                        old.transfers \o <<[tx |-> tx'.tx, amount |-> 0 - tx'.amount]>>
      ]_vars

\* a withdrawal of exactly the available funds was refused
WithdrawBoundaryWitness ==
    /\ Last("Withdraw") /\ result = "Overdraw"
    /\ tx.amount > 0
    /\ clients[tx.client].available_funds = tx.amount

\* ------------------------------------------------------------------- C3
\* C3: once an account is locked, no later record changes its available or
\* held funds.
LockedAccountIsFrozen ==
    [][\A c \in DOMAIN clients :
          clients[c].locked =>
             /\ clients'[c].available_funds = clients[c].available_funds
             /\ clients'[c].held_funds = clients[c].held_funds
      ]_vars

\* ------------------------------------------------------------------- C4
\* C4: an id is in open_disputes only between a successful Dispute and the
\* Resolve or Chargeback that settles it: right after a successful Resolve or
\* Chargeback of an id, the account's disputes hold no entry for that id.
SettledDisputeIsClosed ==
    ((Last("Resolve") \/ Last("Chargeback")) /\ result = "Ok") =>
        ~HasTx(clients[tx.client].disputes, tx.tx)

\* ------------------------------------------------------------------- C5
\* C5: settlement is idempotent: a Resolve that follows a successful Resolve of
\* the same id leaves available and held as they were, and a Chargeback that
\* follows a successful Chargeback of the same id leaves held as it was.
SettlementIsIdempotent ==
    [][/\ (Last("Resolve") /\ result = "Ok" /\ Handled("Resolve") /\ SameTarget) =>
             /\ clients'[tx.client].available_funds =
                    clients[tx.client].available_funds
             /\ clients'[tx.client].held_funds = clients[tx.client].held_funds
       /\ (Last("Chargeback") /\ result = "Ok" /\ Handled("Chargeback") /\ SameTarget) =>
             clients'[tx.client].held_funds = clients[tx.client].held_funds
      ]_vars

\* ------------------------------------------------------------------- C6
\* C6: a Dispute of an id that is in no entry of the history, and a Resolve or
\* Chargeback of an id that is in no entry of the disputes, fails with
\* InvalidTxId and leaves available, held and locked unchanged.
UnknownTxIsRefused ==
    [][LET c == tx'.client
           unknown ==
              \/ Handled("Dispute") /\ ~HasTx(clients[c].transfers, tx'.tx)
              \/ Handled("Resolve") /\ ~HasTx(clients[c].disputes, tx'.tx)
              \/ Handled("Chargeback") /\ ~HasTx(clients[c].disputes, tx'.tx)
       IN  unknown =>
             /\ result' = "InvalidTxId"
             /\ clients'[c].available_funds = clients[c].available_funds
             /\ clients'[c].held_funds = clients[c].held_funds
             /\ clients'[c].locked = clients[c].locked
      ]_vars

\* a Resolve of an id that is in the history but under no dispute was refused,
\* on an account that holds funds for another dispute
UnknownTxIsRefusedWitness ==
    /\ Last("Resolve") /\ result = "InvalidTxId"
    /\ LET a == clients[tx.client] IN
         /\ HasTx(a.transfers, tx.tx)
         /\ ~HasTx(a.disputes, tx.tx)
         /\ a.disputes # <<>>
         /\ a.held_funds # 0

\* ------------------------------------------------------------------- C7
\* C7: a record whose operation returns an Err leaves the whole table as it
\* was, and the loop goes on to the next record.
FailedRecordChangesNothing ==
    [][(nread' = nread + 1 /\ result' \in {"Overdraw", "InvalidTxId"}) =>
          /\ clients' = clients
          /\ pc' = "loop"
      ]_vars

\* two records were read, the history holds one entry and the last record
\* succeeded: the first record failed and the second was applied
FailedRecordChangesNothingWitness ==
    /\ nread = 2
    /\ result = "Ok"
    /\ Last("Deposit")
    /\ Len(clients[tx.client].transfers) = 1
    /\ clients[tx.client].disputes = <<>>

\* ------------------------------------------------------------------- C8
\* C8: a Deposit succeeds in every account state and for every amount, a
\* negative one included: available grows by amount, (tx, amount) becomes the
\* last entry of the history, and held, locked and the disputes are unchanged.
DepositAlwaysApplies ==
    [][Handled("Deposit") =>
         LET old == clients[tx'.client]
             new == clients'[tx'.client]
         IN  /\ result' = "Ok"
             /\ new.available_funds = old.available_funds + tx'.amount
             /\ Len(new.transfers) = Len(old.transfers) + 1
             /\ SubSeq(new.transfers, 1, Len(old.transfers)) = old.transfers
             /\ new.transfers[Len(new.transfers)] =
                   [tx |-> tx'.tx, amount |-> tx'.amount]
             /\ new.held_funds = old.held_funds
             /\ new.locked = old.locked
             /\ new.disputes = old.disputes
      ]_vars

\* a negative amount was deposited into an account that already had a history
\* and an open dispute
DepositAlwaysAppliesWitness ==
    /\ Last("Deposit") /\ result = "Ok"
    /\ tx.amount < 0
    /\ LET a == clients[tx.client] IN
         /\ Len(a.transfers) >= 2
         /\ a.transfers[Len(a.transfers)] = [tx |-> tx.tx, amount |-> tx.amount]
         /\ a.disputes # <<>>

\* ------------------------------------------------------------------- C9
\* C9: a Dispute of an id that is in the history succeeds, also when the id is
\* already under dispute: for the signed amount a stored with that id,
\* available falls by a, held grows by a, available + held is unchanged and
\* (tx, a) is appended to the disputes.  On an account whose only entry is the
\* disputed one, available becomes 0 and held becomes that amount.
DisputeMovesStoredAmount ==
    [][(Handled("Dispute") /\ HasTx(clients[tx'.client].transfers, tx'.tx)) =>
         LET old == clients[tx'.client]
             new == clients'[tx'.client]
         IN  /\ result' = "Ok"
             /\ \E i \in 1..Len(old.transfers) :
                   /\ old.transfers[i].tx = tx'.tx
                   /\ new.available_funds =
                         old.available_funds - old.transfers[i].amount
                   /\ new.held_funds = old.held_funds + old.transfers[i].amount
                   /\ new.disputes =
                         Append(old.disputes,
                                [tx |-> tx'.tx, amount |-> old.transfers[i].amount])
             /\ total_funds(new) = total_funds(old)
             /\ new.transfers = old.transfers
             /\ new.locked = old.locked
             /\ (Len(old.transfers) = 1 /\ old.disputes = <<>>) =>
                   /\ new.available_funds = 0
                   /\ new.held_funds = old.transfers[1].amount
      ]_vars

\* a withdrawal (negative stored amount) was disputed a second time
DisputeMovesStoredAmountWitness ==
    /\ Last("Dispute") /\ result = "Ok"
    /\ LET a == clients[tx.client]
           n == Len(a.disputes)
       IN  /\ n >= 2
           /\ a.disputes[n] = a.disputes[n - 1]
           /\ a.disputes[n].tx = tx.tx
           /\ a.disputes[n].amount < 0
           /\ \E i \in 1..Len(a.transfers) : a.transfers[i].amount > 0

\* ------------------------------------------------------------------ C10
\* C10: from every account state with held = 0, a successful Dispute of an id
\* followed at once by a Resolve of that id succeeds, brings available back to
\* its value before the Dispute and held back to 0, and leaves the total and
\* locked as they were.
DisputeThenResolveRestores ==
    \A c \in DOMAIN clients, t \in TxIds :
        LET s == clients[c]
            d == dispute(s, t)
            r == resolve(d.info, t)
        IN  (s.held_funds = 0 /\ d.res = "Ok") =>
               /\ r.res = "Ok"
               /\ r.info.available_funds = s.available_funds
               /\ r.info.held_funds = 0
               /\ total_funds(r.info) = total_funds(s)
               /\ r.info.locked = s.locked

\* three records were read: a transfer, its dispute and the resolve, which
\* succeeded and left nothing held
DisputeThenResolveRestoresWitness ==
    /\ nread = 3
    /\ Last("Resolve") /\ result = "Ok"
    /\ LET a == clients[tx.client] IN
         /\ Len(a.transfers) = 1
         /\ Len(a.disputes) = 1
         /\ a.disputes[1].tx = tx.tx
         /\ a.held_funds = 0
         /\ a.available_funds = a.transfers[1].amount
         /\ a.available_funds # 0

\* ------------------------------------------------------------------ C11
\* C11: from every account state with held = 0, a successful Dispute of an id
\* followed at once by a Chargeback of that id succeeds, brings held back to 0
\* and sets locked; the Chargeback leaves available at the value the Dispute
\* left.
DisputeThenChargebackLocks ==
    \A c \in DOMAIN clients, t \in TxIds :
        LET s == clients[c]
            d == dispute(s, t)
            r == chargeback(d.info, t)
        IN  (s.held_funds = 0 /\ d.res = "Ok") =>
               /\ r.res = "Ok"
               /\ r.info.held_funds = 0
               /\ r.info.locked
               /\ r.info.available_funds = d.info.available_funds

\* three records were read: a transfer, its dispute and the chargeback, which
\* succeeded, emptied held and locked the account
DisputeThenChargebackLocksWitness ==
    /\ nread = 3
    /\ Last("Chargeback") /\ result = "Ok"
    /\ LET a == clients[tx.client] IN
         /\ Len(a.transfers) = 1
         /\ a.transfers[1].amount > 0
         /\ Len(a.disputes) = 1
         /\ a.disputes[1].tx = tx.tx
         /\ a.held_funds = 0
         /\ a.available_funds = 0
         /\ a.locked

\* ------------------------------------------------------------------ C12
\* the account of client 1 after each record of the scenario
ScenarioExpected ==
    << [available_funds |-> 10000, held_funds |-> 0, locked |-> FALSE,
        transfers |-> <<[tx |-> 1, amount |-> 10000]>>, disputes |-> <<>>],
       [available_funds |-> 5000, held_funds |-> 0, locked |-> FALSE,
        transfers |-> <<[tx |-> 1, amount |-> 10000], [tx |-> 2, amount |-> -5000]>>,
        disputes |-> <<>>],
       [available_funds |-> 5000, held_funds |-> 0, locked |-> FALSE,
        transfers |-> <<[tx |-> 1, amount |-> 10000], [tx |-> 2, amount |-> -5000]>>,
        disputes |-> <<>>],
       [available_funds |-> -5000, held_funds |-> 10000, locked |-> FALSE,
        transfers |-> <<[tx |-> 1, amount |-> 10000], [tx |-> 2, amount |-> -5000]>>,
        disputes |-> <<[tx |-> 1, amount |-> 10000]>>],
       [available_funds |-> 5000, held_funds |-> 0, locked |-> FALSE,
        transfers |-> <<[tx |-> 1, amount |-> 10000], [tx |-> 2, amount |-> -5000]>>,
        disputes |-> <<[tx |-> 1, amount |-> 10000]>>] >>

ScenarioResult == <<"Ok", "Ok", "Overdraw", "Ok", "Ok">>

\* the account of client 1 after the first k records of the scenario
ScenarioAfter(k) == IF k = 0 THEN DefaultClientInfo ELSE ScenarioExpected[k]

\* the record read in this step is the k-th record of the scenario
ReadsScenarioRecord(k) ==
    /\ nread' = nread + 1
    /\ tx'.type = Scenario[k].type
    /\ tx'.client = Scenario[k].client
    /\ tx'.tx = Scenario[k].tx
    /\ (tx'.type \in {"Deposit", "Withdraw"} => tx'.amount = Scenario[k].amount)

\* C12: on an empty ledger the scenario runs as stated: the first withdraw
\* succeeds and leaves available 0.5000, the second fails and changes nothing,
\* the dispute leaves available -0.5000 and held 1.0000, the resolve leaves
\* available 0.5000 and held 0.0000.
ScenarioRunsAsStated ==
    [][\A k \in 1..Len(Scenario) :
          (nread = k - 1 /\ clients[1] = ScenarioAfter(k - 1) /\ ReadsScenarioRecord(k))
          => /\ result' = ScenarioResult[k]
             /\ clients'[1].available_funds = ScenarioExpected[k].available_funds
             /\ clients'[1].held_funds = ScenarioExpected[k].held_funds
             /\ (ScenarioResult[k] # "Ok" => clients' = clients)
      ]_vars

\* the five records were read and the resolve left 0.5000 available, nothing
\* held, after a withdrawal was refused
ScenarioRunsAsStatedWitness ==
    /\ nread = Len(Scenario)
    /\ Last("Resolve") /\ result = "Ok"
    /\ clients[1] = ScenarioExpected[Len(Scenario)]

\* ------------------------------------------------------------------ C13
\* C13: every Currency value, positive, zero or negative, values between
\* -1.0000 and 0 included, comes back equal from parsing its rendered text.
CurrencyRoundTrips ==
    conv.stage = "parsed" => (conv.parsed.ok /\ conv.parsed.val = conv.value)

\* ------------------------------------------------------------------ C14
\* C14: dispatching a record is total: for every record type and every client
\* id of the u16 range, handle_transaction returns Ok or an Err and never
\* aborts.
DispatchNeverAborts == pc # "panicked" /\ result # "panic"

\* ------------------------------------------------------------------ C15
\* C15: the history is append-only: every step leaves each account's history
\* a prefix of its new history; a successful Deposit or Withdraw extends it by
\* exactly one entry; a Dispute, Resolve, Chargeback or refused Withdraw leaves
\* it as it was.
HistoryIsAppendOnly ==
    [][\A c \in DOMAIN clients :
          LET old == clients[c].transfers
              new == clients'[c].transfers
              grows == /\ nread' = nread + 1
                       /\ tx'.type \in {"Deposit", "Withdraw"}
                       /\ tx'.client = c
                       /\ result' = "Ok"
          IN  /\ Len(new) >= Len(old)
              /\ SubSeq(new, 1, Len(old)) = old
              /\ IF grows THEN Len(new) = Len(old) + 1 ELSE new = old
      ]_vars

\* a withdrawal was appended to a history that already had entries, on an
\* account with a dispute open
HistoryIsAppendOnlyWitness ==
    /\ Last("Withdraw") /\ result = "Ok"
    /\ LET a == clients[tx.client] IN
         /\ Len(a.transfers) >= 2
         /\ a.transfers[Len(a.transfers)].tx = tx.tx
         /\ a.disputes # <<>>

\* ------------------------------------------------------------------ C16
\* the smallest index of an entry of s with id t
Earliest(s, t) ==
    LET hits == {k \in 1..Len(s) : s[k].tx = t}
    IN  CHOOSE i \in hits : \A j \in hits : i <= j

\* C16: lookups are first-match-wins in insertion order: a Dispute moves the
\* amount of the earliest history entry with the id, and only that amount; a
\* Resolve or a Chargeback applies the amount of the earliest disputes entry
\* with the id, once.
FirstMatchWins ==
    [][LET c == tx'.client
           t == tx'.tx
           old == clients[c]
           new == clients'[c]
       IN  /\ (Handled("Dispute") /\ HasTx(old.transfers, t)) =>
                 LET a == old.transfers[Earliest(old.transfers, t)].amount IN
                 /\ new.available_funds = old.available_funds - a
                 /\ new.held_funds = old.held_funds + a
                 /\ new.disputes = Append(old.disputes, [tx |-> t, amount |-> a])
           /\ (Handled("Resolve") /\ HasTx(old.disputes, t)) =>
                 LET a == old.disputes[Earliest(old.disputes, t)].amount IN
                 /\ new.available_funds = old.available_funds + a
                 /\ new.held_funds = old.held_funds - a
           /\ (Handled("Chargeback") /\ HasTx(old.disputes, t)) =>
                 LET a == old.disputes[Earliest(old.disputes, t)].amount IN
                 /\ new.available_funds = old.available_funds
                 /\ new.held_funds = old.held_funds - a
      ]_vars

\* an id that the history holds twice, with different amounts, was disputed
\* and the amount of the first entry is held
FirstMatchWinsWitness ==
    /\ Last("Dispute") /\ result = "Ok"
    /\ LET a == clients[tx.client] IN
         /\ Len(a.transfers) = 2
         /\ a.transfers[1].tx = tx.tx
         /\ a.transfers[2].tx = tx.tx
         /\ a.transfers[1].amount # a.transfers[2].amount
         /\ a.disputes = <<a.transfers[1]>>
         /\ a.held_funds = a.transfers[1].amount

\* ------------------------------------------------------------------ C17
\* records r1 and r2 give the same table and the same results in either order
Commute(table, r1, r2) ==
    LET a == handle_transaction(table, r1)
        b == handle_transaction(table, r2)
        ab == handle_transaction(a.clients, r2)
        ba == handle_transaction(b.clients, r1)
    IN  /\ ab.clients = ba.clients
        /\ ab.res = b.res
        /\ ba.res = a.res

\* C17: a record for client c leaves every other client's account as it was,
\* and it commutes with every record addressed to another client: either
\* order gives the same table and the same result for each record.
ClientsAreIndependent ==
    [][(nread' = nread + 1 /\ InTable(tx'.client)) =>
          /\ \A o \in DOMAIN clients \ {tx'.client} : clients'[o] = clients[o]
          /\ \A o \in DOMAIN clients \ {tx'.client}, t \in TxIds :
                /\ \A a \in TwoAmounts :
                      /\ Commute(clients, tx',
                            [tx |-> t, amount |-> a, type |-> "Deposit", client |-> o])
                      /\ Commute(clients, tx',
                            [tx |-> t, amount |-> a, type |-> "Withdraw", client |-> o])
                /\ Commute(clients, tx', [tx |-> t, type |-> "Dispute", client |-> o])
                /\ Commute(clients, tx', [tx |-> t, type |-> "Resolve", client |-> o])
                /\ Commute(clients, tx', [tx |-> t, type |-> "Chargeback", client |-> o])
      ]_vars

\* a record of one client was applied after records of the other client had
\* built up a history and held funds there
ClientsAreIndependentWitness ==
    /\ Last("Deposit") /\ result = "Ok"
    /\ \E o \in DOMAIN clients \ {tx.client} :
          /\ clients[o].held_funds # 0
          /\ clients[o].disputes # <<>>
          /\ HasTx(clients[o].transfers, tx.tx)

\* ------------------------------------------------------------------ C18
\* C18: lookups are scoped to the addressed client: a Dispute, Resolve or
\* Chargeback for one client of an id that only another client's history or
\* disputes hold fails with InvalidTxId and changes neither account.
LookupsAreScopedToClient ==
    [][LET c == tx'.client
           foreign ==
              \/ /\ Handled("Dispute")
                 /\ ~HasTx(clients[c].transfers, tx'.tx)
                 /\ \E o \in DOMAIN clients \ {c} : HasTx(clients[o].transfers, tx'.tx)
              \/ /\ (Handled("Resolve") \/ Handled("Chargeback"))
                 /\ ~HasTx(clients[c].disputes, tx'.tx)
                 /\ \E o \in DOMAIN clients \ {c} : HasTx(clients[o].disputes, tx'.tx)
       IN  foreign => (result' = "InvalidTxId" /\ clients' = clients)
      ]_vars

\* a Resolve for one client of an id under dispute only at the other client
\* was refused
LookupsAreScopedToClientWitness ==
    /\ Last("Resolve") /\ result = "InvalidTxId"
    /\ clients[tx.client].transfers = <<>>
    /\ \E o \in DOMAIN clients \ {tx.client} :
          /\ HasTx(clients[o].disputes, tx.tx)
          /\ clients[o].held_funds # 0

\* ------------------------------------------------------------------ C19
\* C19: with deposits and withdrawals of non-negative amounts only, available
\* is never negative, and right after a successful Withdraw it is above zero.
AvailableStaysPositive ==
    /\ \A c \in DOMAIN clients : clients[c].available_funds >= 0
    /\ (Last("Withdraw") /\ result = "Ok") =>
          clients[tx.client].available_funds > 0

\* a withdrawal took the account down to the smallest amount above zero
AvailableStaysPositiveWitness ==
    /\ Last("Withdraw") /\ result = "Ok"
    /\ tx.amount > 0
    /\ clients[tx.client].available_funds = 1

\* ------------------------------------------------------------------ C20
\* C20: locked is false in a new account, turns true only in a successful
\* Chargeback on that account, and once true stays true whatever record
\* follows.
LockedIsMonotonic ==
    /\ \A c \in DOMAIN clients : ~clients[c].locked
    /\ [][\A c \in DOMAIN clients :
             /\ clients[c].locked => clients'[c].locked
             /\ (~clients[c].locked /\ clients'[c].locked) =>
                   /\ Handled("Chargeback")
                   /\ tx'.client = c
                   /\ result' = "Ok"
         ]_vars

\* a Resolve was applied to an account that a chargeback had locked, and the
\* account is still locked
LockedIsMonotonicWitness ==
    /\ Last("Resolve") /\ result = "Ok"
    /\ nread = 4
    /\ clients[tx.client].locked
    /\ clients[tx.client].held_funds # 0

=============================================================================
